---- MODULE Spec2Model ----
(***************************************************************************)
(* Model of the arXiv retrieval-and-synthesis pipeline of src/main.py:     *)
(* main() -> search_arxiv() -> generate_report_markdown(), with the        *)
(* per-entry coroutines run by asyncio.gather on one event loop.           *)
(*                                                                         *)
(* Python strings are modelled as tuples of one-character strings, so that *)
(* split, strip and the regular expression of extract_citation_key are     *)
(* computed, not assumed.  None is the one-element tuple <<"None">>, which *)
(* is no string of characters.                                             *)
(***************************************************************************)
EXTENDS Integers, Sequences, FiniteSets, TLC

\* ------------------------------------------------------------------ bounds

\* entries in one feed
MaxEntries == 2
\* length of the texts extract_citation_key is applied to on its own
MaxKeyLen == 6
\* links of the entries the choice of the content task is applied to on its
\* own
MaxLinks == 3
\* length of the queries format_arxiv_query is applied to on its own
MaxQueryLen == 5
\* length of the identifier segment of the URLs the BibTeX coroutine is run on
\* on its own
MaxIdLen == 3
\* length of the detail field of the responses lines 114-117 are applied to
\* on their own
MaxDetailLen == 3

\* ------------------------------------------------------- program constants

\* metadata_text[:200000]
MaxTextLen == 200000

None == <<"None">>

ErrBibTeX == <<"E","r","r","o","r"," ","r","e","t","r","i","e","v","i","n","g"," ","B","i","b","T","e","X",":"," ">>

ErrPdf == <<"E","r","r","o","r"," ","r","e","t","r","i","e","v","i","n","g"," ","P","D","F"," ","t","e","x","t",":"," ">>

ErrHtml == <<"E","r","r","o","r"," ","r","e","t","r","i","e","v","i","n","g"," ","H","T","M","L"," ","t","e","x","t",":"," ">>

NoValidId == <<"N","o"," ","v","a","l","i","d"," ","a","r","X","i","v"," ","i","d"," ","f","o","u","n","d"," ","i","n"," ","e","n","t","r","y",".","i","d">>

NoPdfText == <<"N","o"," ","t","e","x","t"," ","c","o","u","l","d"," ","b","e"," ","e","x","t","r","a","c","t","e","d"," ","f","r","o","m"," ","t","h","e"," ","P","D","F",".">>

NA == <<"N","A">>

AbsMarker == <<"/","a","b","s","/">>

BibtexBase == <<"h","t","t","p","s",":","/","/","a","r","x","i","v",".","o","r","g","/","b","i","b","t","e","x","/">>

\* ------------------------------------------------------------ str helpers

Min(a, b) == IF a < b THEN a ELSE b

Digit(i) == <<"0","1","2","3","4","5","6","7","8","9">>[i + 1]

\* the characters \s matches and str.strip() removes
IsSpace(c) == c \in {" ", "\n", "\t"}

\* the characters \w matches
IsWord(c) ==
    c \in {"a","b","c","d","e","f","g","h","i","j","k","l","m","n","o","p","q",
           "r","s","t","u","v","w","x","y","z",
           "A","B","C","D","E","F","G","H","I","J","K","L","M","N","O","P","Q",
           "R","S","T","U","V","W","X","Y","Z",
           "0","1","2","3","4","5","6","7","8","9","_"}

StartsWith(s, p) == Len(s) >= Len(p) /\ SubSeq(s, 1, Len(p)) = p

\* s[i:] for a 1-based i
From(s, i) == SubSeq(s, i, Len(s))

RECURSIVE LStrip(_)
LStrip(s) == IF s # <<>> /\ IsSpace(Head(s)) THEN LStrip(Tail(s)) ELSE s

RECURSIVE RStrip(_)
RStrip(s) ==
    IF s # <<>> /\ IsSpace(s[Len(s)]) THEN RStrip(SubSeq(s, 1, Len(s) - 1)) ELSE s

\* str.strip()
Strip(s) == RStrip(LStrip(s))

\* str.find(m, i): the first index >= i at which m occurs in s, 0 when none
RECURSIVE Find(_, _, _)
Find(s, m, i) ==
    IF i + Len(m) - 1 > Len(s) THEN 0
    ELSE IF SubSeq(s, i, i + Len(m) - 1) = m THEN i
    ELSE Find(s, m, i + 1)

\* str.split(m) and re.split(m, s) for a literal, non-empty m
RECURSIVE Split(_, _)
Split(s, m) ==
    LET p == Find(s, m, 1)
    IN  IF p = 0 THEN <<s>>
        ELSE <<SubSeq(s, 1, p - 1)>> \o Split(From(s, p + Len(m)), m)

\* sep.join(parts)
RECURSIVE Join(_, _)
Join(parts, sep) ==
    IF parts = <<>> THEN <<>>
    ELSE IF Len(parts) = 1 THEN parts[1]
    ELSE parts[1] \o sep \o Join(Tail(parts), sep)

\* ----------------------------------------------- the code's pure functions

\* the first index >= i whose character does not satisfy \w
RECURSIVE WordRunEnd(_, _)
WordRunEnd(s, i) ==
    IF i <= Len(s) /\ IsWord(s[i]) THEN WordRunEnd(s, i + 1) ELSE i

\* the first index >= i whose character does not satisfy \s
RECURSIVE SpaceRunEnd(_, _)
SpaceRunEnd(s, i) ==
    IF i <= Len(s) /\ IsSpace(s[i]) THEN SpaceRunEnd(s, i + 1) ELSE i

\* group(1) of a match of  @\w+\s*\{\s*([^,]+),  that starts at index i, or
\* None.  \w+ and the first \s* can only match their maximal runs (what
\* follows each is outside its class); the group ends before the first
\* comma after the brace; the second \s* takes the leading whitespace
\* unless that leaves the group empty, when it gives one character back.
MatchAt(s, i) ==
    IF s[i] # "@" THEN None
    ELSE LET w == WordRunEnd(s, i + 1)
         IN  IF w = i + 1 THEN None
             ELSE LET b == SpaceRunEnd(s, w)
                  IN  IF b > Len(s) \/ s[b] # "{" THEN None
                      ELSE LET c == Find(s, <<",">>, b + 1)
                               g == SpaceRunEnd(s, b + 1)
                           IN  IF c = 0 \/ c = b + 1 THEN None
                               ELSE IF g < c THEN SubSeq(s, g, c - 1)
                               ELSE SubSeq(s, c - 1, c - 1)

\* re.search: the leftmost match
RECURSIVE SearchKey(_, _)
SearchKey(s, i) ==
    IF i > Len(s) THEN None
    ELSE IF MatchAt(s, i) # None THEN MatchAt(s, i)
    ELSE SearchKey(s, i + 1)

\* line 47 without its .strip()
extract_citation_key_unstripped(bibtex_text) ==
    LET match == SearchKey(bibtex_text, 1)
    IN  IF match # None THEN match ELSE None

extract_citation_key(bibtex_text) ==
    LET match == SearchKey(bibtex_text, 1)
    IN  IF match # None THEN Strip(match) ELSE None

\* str.split(): the maximal runs of characters that are not whitespace
RECURSIVE Words(_)
Words(s) ==
    LET t == LStrip(s)
        e == CHOOSE j \in 1..(Len(t) + 1) :
                 /\ j = Len(t) + 1 \/ IsSpace(t[j])
                 /\ \A k \in 1..(j - 1) : ~IsSpace(t[k])
    IN  IF t = <<>> THEN <<>>
        ELSE <<SubSeq(t, 1, e - 1)>> \o Words(From(t, e))

\* urllib.parse.quote of one character: letters, digits and _.-~/ are kept,
\* any other character becomes % and the two hex digits of its code
QuoteChar(c) ==
    IF IsWord(c) \/ c \in {".", "-", "~", "/"} THEN <<c>>
    ELSE CASE c = " " -> <<"%","2","0">>
           [] c = ":" -> <<"%","3","A">>
           [] c = "%" -> <<"%","2","5">>
           [] c = "+" -> <<"%","2","B">>
           [] c = "\n" -> <<"%","0","A">>
           [] c = "\t" -> <<"%","0","9">>
           [] c = "&" -> <<"%","2","6">>
           [] c = "=" -> <<"%","3","D">>

RECURSIVE Quote(_)
Quote(s) == IF s = <<>> THEN <<>> ELSE QuoteChar(Head(s)) \o Quote(Tail(s))

AndOp == <<" ","A","N","D"," ">>

AllPrefix == <<"a","l","l",":">>

\* lines 37-41 without the quoting of line 41
format_arxiv_query_unquoted(query) ==
    LET words == Words(Strip(query))
    IN  IF words = <<>> THEN <<>>
        ELSE Join([i \in DOMAIN words |-> AllPrefix \o words[i]], AndOp)

format_arxiv_query(query) ==
    LET words == Words(Strip(query))
    IN  IF words = <<>> THEN <<>>
        ELSE Quote(Join([i \in DOMAIN words |-> AllPrefix \o words[i]], AndOp))

base_url == <<"h","t","t","p",":","/","/","e","x","p","o","r","t",".","a","r","x","i","v",".","o","r","g","/","a","p","i","/","q","u","e","r","y","?">>

\* line 122
QueryUrl(query) ==
    base_url \o <<"s","e","a","r","c","h","_","q","u","e","r","y","=">> \o format_arxiv_query(query) \o <<"&","s","t","a","r","t","=","0","&","m","a","x","_","r","e","s","u","l","t","s","=","1","0">>

\* lines 58-62 of async_get_bibtex_entry: None when entry.id has no "/abs/"
arxiv_id(abs_url) ==
    LET parts == Split(abs_url, AbsMarker)
    IN  IF Len(parts) < 2 THEN None
        ELSE Split(parts[2], <<"v">>)[1]

\* line 63
bibtex_url(id) == BibtexBase \o id

\* a fetched PDF body: whether PdfReader can read it, and its pages' texts
NoContent == [valid |-> FALSE, pages |-> <<>>]

\* a structured response of strict_json_async: "Text Relevant for query"
\* and "Filtered Detailed Important Information"
NoRes == [relevant |-> FALSE, detail |-> <<>>]

\* the page loop of extract_text
RECURSIVE PagesText(_)
PagesText(pages) ==
    IF pages = <<>> THEN <<>>
    ELSE (IF Head(pages) # <<>> THEN Head(pages) \o <<"\n">> ELSE <<>>)
         \o PagesText(Tail(pages))

extract_text(content) ==
    LET text == PagesText(content.pages)
    IN  IF text # <<>> THEN text ELSE NoPdfText

\* re.sub(r'\n+', '\n', text)
RECURSIVE CollapseNewlines(_)
CollapseNewlines(s) ==
    IF s = <<>> THEN <<>>
    ELSE IF Head(s) = "\n" /\ Len(s) > 1 /\ s[2] = "\n"
    THEN CollapseNewlines(Tail(s))
    ELSE <<Head(s)>> \o CollapseNewlines(Tail(s))

\* lines 95-98: a parsed page is the sequence of its text nodes
cleaned_text(nodes) == Strip(CollapseNewlines(Join(nodes, <<"\n">>)))

\* lines 114-117 deciding by the detail text instead of the boolean
RetrieveImportantByText(res) == IF res.detail # NA THEN res.detail ELSE NA

\* lines 114-117
RetrieveImportant(res) == IF res.relevant THEN res.detail ELSE NA

\* lines 136-143: the last PDF link and the last alternate link win; an
\* absent or empty URL is <<>>, which `if pdf_url:` takes as false
RECURSIVE ScanLinks(_, _, _)
ScanLinks(links, pdf_url, html_url) ==
    IF links = <<>> THEN [pdf_url |-> pdf_url, html_url |-> html_url]
    ELSE LET link == Head(links)
         IN  IF link.type = "application/pdf"
             THEN ScanLinks(Tail(links), link.href, html_url)
             ELSE IF link.rel = "alternate"
             THEN ScanLinks(Tail(links), pdf_url, link.href)
             ELSE ScanLinks(Tail(links), pdf_url, html_url)

\* lines 146-152 trying the page first and the PDF second
MetadataTaskHtmlFirst(entry) ==
    LET u == ScanLinks(entry.links, <<>>, <<>>)
    IN  IF u.html_url # <<>>
        THEN [kind |-> "html", arg |-> u.html_url, st |-> "created", net |-> "none", content |-> NoContent, result |-> <<>>]
        ELSE IF u.pdf_url # <<>>
        THEN [kind |-> "pdf", arg |-> u.pdf_url, st |-> "created", net |-> "none", content |-> NoContent, result |-> <<>>]
        ELSE [kind |-> "summary", arg |-> Strip(entry.summary), st |-> "created", net |-> "none", content |-> NoContent, result |-> <<>>]

\* lines 146-152: the coroutine object appended to metadata_tasks
MetadataTask(entry) ==
    LET u == ScanLinks(entry.links, <<>>, <<>>)
    IN  IF u.pdf_url # <<>>
        THEN [kind |-> "pdf", arg |-> u.pdf_url, st |-> "created", net |-> "none", content |-> NoContent, result |-> <<>>]
        ELSE IF u.html_url # <<>>
        THEN [kind |-> "html", arg |-> u.html_url, st |-> "created", net |-> "none", content |-> NoContent, result |-> <<>>]
        ELSE [kind |-> "summary", arg |-> Strip(entry.summary), st |-> "created", net |-> "none", content |-> NoContent, result |-> <<>>]

\* lines 133 and 56-63: the BibTeX coroutine of an entry, run to its first
\* suspension: the request is in flight, or line 60 has returned
BibtexTask(entry) ==
    IF arxiv_id(entry.id) = None
    THEN [st |-> "done", url |-> <<>>, result |-> NoValidId]
    ELSE [st |-> "inflight", url |-> bibtex_url(arxiv_id(entry.id)), result |-> <<>>]

\* asyncio.gather: the results in the order of the awaitables passed
Gather(tasks) == [i \in DOMAIN tasks |-> tasks[i].result]

\* d[k] = v that keeps the value a key already has
DictSetKeepFirst(d, k, v) ==
    IF \E p \in DOMAIN d : d[p].key = k
    THEN d
    ELSE Append(d, [key |-> k, value |-> v])

\* d[k] = v on a dict kept as the sequence of its items in insertion order
DictSet(d, k, v) ==
    IF \E p \in DOMAIN d : d[p].key = k
    THEN [p \in DOMAIN d |-> IF d[p].key = k THEN [key |-> k, value |-> v] ELSE d[p]]
    ELSE Append(d, [key |-> k, value |-> v])

\* line 159 leaving out the results that have no citation key
RECURSIVE MakeDictOfRecords(_, _)
MakeDictOfRecords(d, bibtex_entries_) ==
    IF bibtex_entries_ = <<>> THEN d
    ELSE IF extract_citation_key(Head(bibtex_entries_)) = None
    THEN MakeDictOfRecords(d, Tail(bibtex_entries_))
    ELSE MakeDictOfRecords(DictSet(d, extract_citation_key(Head(bibtex_entries_)), Head(bibtex_entries_)),
                           Tail(bibtex_entries_))

\* line 159
RECURSIVE MakeDict(_, _)
MakeDict(d, bibtex_entries_) ==
    IF bibtex_entries_ = <<>> THEN d
    ELSE MakeDict(DictSet(d, extract_citation_key(Head(bibtex_entries_)), Head(bibtex_entries_)),
                  Tail(bibtex_entries_))

\* line 162 reading the first text for every entry
SynthesisTasksFirstText(metadata_texts_) ==
    [i \in DOMAIN metadata_texts_ |->
        [text |-> SubSeq(metadata_texts_[1], 1, Min(Len(metadata_texts_[1]), MaxTextLen)),
         st |-> "running", res |-> NoRes, result |-> <<>>]]

\* lines 162-163 and 104-113: one call of the service per text, in flight
SynthesisTasks(metadata_texts_) ==
    [i \in DOMAIN metadata_texts_ |->
        [text |-> SubSeq(metadata_texts_[i], 1, Min(Len(metadata_texts_[i]), MaxTextLen)),
         st |-> "running", res |-> NoRes, result |-> <<>>]]

\* ------------------------------------------------------ the environment

\* str(e) of the exception of a failed request for a record or a document,
\* of a failed PDF parse, of a failed feed request, of a failed call of the
\* understanding service and of a failed rendering
Msgs == {<<"4","0","4">>}

ParseMsgs == {<<"E","O","F">>}

FeedMsgs == {<<"5","0","3">>}

LlmMsgs == {<<"L","L","M">>}

RenderMsgs == {<<"x","m","l">>}

\* str(e) of the exception of a failed call for the report
ReportMsgs == {<<"R","E","P">>}

\* what the user can type as the search query
Queries == {<<"a"," ","b">>, <<" ">>}

\* entry.id of entry i: an abstract-page URL with a version, or a URL with no
\* "/abs/" in it
EntryIds(i) ==
    {<<"x">> \o AbsMarker \o <<Digit(i), "v", "1">>, <<"x", "/", Digit(i)>>}

\* the links a feed gives: the abstract page and the PDF
AbsLink(i) == [type |-> "text/html", rel |-> "alternate", href |-> <<"h", Digit(i)>>]

PdfLink(i) == [type |-> "application/pdf", rel |-> "related", href |-> <<"p", Digit(i)>>]

\* entry.links of entry i (an entry without the attribute has no links)
LinkLists(i) == {<<>>, <<AbsLink(i)>>, <<AbsLink(i), PdfLink(i)>>}

Summaries(i) == {<<" ", "S", Digit(i), "\n">>}

Entries(i) == [id : EntryIds(i), links : LinkLists(i), summary : Summaries(i)]

\* feedparser.parse(xml_data).entries
Feeds ==
    UNION {{f \in [1..n -> UNION {Entries(i) : i \in 1..n}] :
               \A i \in 1..n : f[i] \in Entries(i)} : n \in 0..MaxEntries}

\* the records the bibliography service can answer a request with: the key
\* is the paper's own or one shared with other papers
BibBodies(url) ==
    {<<"@","m","{">> \o key \o <<",","u","=",url[Len(url)],"}">> :
        key \in {<<"k">>, <<" ","k",url[Len(url)]>>}}

\* the bodies the document endpoint can answer a PDF request with
PdfContents(url) ==
    {[valid |-> TRUE, pages |-> <<<<"P", url[2]>>, <<>>>>],
     [valid |-> TRUE, pages |-> << <<>> >>],
     [valid |-> FALSE, pages |-> <<>>]}

\* the text nodes of the pages the document endpoint can answer with
HtmlDocs(url) == {<< <<"H", url[2]>>, <<"\n", "\n">>, <<"x", " ">> >>}

\* the structured responses the understanding service can give for a text
Responses(text) ==
    [relevant : BOOLEAN,
     detail : {<<"[">> \o SubSeq(text, 1, Min(Len(text), 2)) \o <<"]">>}]

Reports == {<<"#"," ","R">>}

\* ------------------------------------------------------------- the state

VARIABLES
    pc,                     \* where main() is: idle, warned, feed, bib, meta,
                            \* synth, report, done, error
    session,                \* the aiohttp.ClientSession: none, open, closed
    query_url,              \* the feed request in flight
    feed_response,          \* how the feed request ended: none, ok, error
    feed,                   \* feed.entries
    bibtex_tasks,           \* the coroutines of line 133, run by line 155
    bib_order,              \* the indices of bibtex_tasks in completion order
    metadata_tasks,         \* the coroutines of lines 147-152, run by line 156
    bibtex_entries,         \* line 155
    metadata_texts,         \* line 156
    bibtex_dict,            \* line 159, as the sequence of its items
    synthesis_tasks,        \* line 162
    important_information,  \* line 163
    shown,                  \* what the page shows, in order: [kind, text]
    fn_in,                  \* the argument of a function applied on its own
    fn_out                  \* its result

vars ==
    <<pc, session, query_url, feed_response, feed, bibtex_tasks, bib_order, metadata_tasks,
      bibtex_entries, metadata_texts, bibtex_dict, synthesis_tasks,
      important_information, shown, fn_in, fn_out>>

search_vars ==
    <<feed, bibtex_tasks, bib_order, metadata_tasks, bibtex_entries,
      metadata_texts, bibtex_dict, synthesis_tasks, important_information>>

fn_vars == <<fn_in, fn_out>>

Idle ==
    /\ pc = "idle"
    /\ session = "none"
    /\ query_url = <<>>
    /\ feed_response = "none"
    /\ feed = <<>>
    /\ bibtex_tasks = <<>>
    /\ bib_order = <<>>
    /\ metadata_tasks = <<>>
    /\ bibtex_entries = <<>>
    /\ metadata_texts = <<>>
    /\ bibtex_dict = <<>>
    /\ synthesis_tasks = <<>>
    /\ important_information = <<>>
    /\ shown = <<>>

Unapplied == [applied |-> FALSE, value |-> <<>>]

Applied(value) == [applied |-> TRUE, value |-> value]

Init ==
    /\ Idle
    /\ fn_in = <<>>
    /\ fn_out = Unapplied

\* the locals of search_arxiv and main are gone once main has returned
Cleared ==
    /\ feed' = <<>>
    /\ bibtex_tasks' = <<>>
    /\ bib_order' = <<>>
    /\ metadata_tasks' = <<>>
    /\ bibtex_entries' = <<>>
    /\ metadata_texts' = <<>>
    /\ bibtex_dict' = <<>>
    /\ synthesis_tasks' = <<>>
    /\ important_information' = <<>>

Item(kind, text) == [kind |-> kind, text |-> text]

AllDone(tasks) == \A i \in DOMAIN tasks : tasks[i].st = "done"

\* ------------------------------------------------------------ the actions

\* lines 274-282 and 119-125: the button is pressed; without an API key the
\* page warns and main returns, else the session is opened and search_arxiv
\* runs up to its await of the feed fetch
GenerateReport ==
    /\ pc = "idle"
    /\ \E has_key \in BOOLEAN, query \in Queries :
          IF has_key
          THEN /\ session' = "open"
               /\ query_url' = QueryUrl(query)
               /\ pc' = "feed"
               /\ shown' = shown
          ELSE /\ pc' = "warned"
               /\ shown' = Append(shown, Item("warning", <<>>))
               /\ UNCHANGED <<session, query_url>>
    /\ UNCHANGED <<feed_response, search_vars, fn_vars>>

\* a failed feed fetch taken for an empty feed
FeedFetchFailsSwallowed ==
    /\ pc = "feed"
    /\ feed_response' = "error"
    /\ pc' = "bib"
    /\ query_url' = <<>>
    /\ UNCHANGED <<session, search_vars, shown, fn_vars>>

\* lines 50-53 fail (the request, or raise_for_status): the exception leaves
\* search_arxiv and the `async with`, which closes the session, and line 291
\* shows it
FeedFetchFails ==
    /\ pc = "feed"
    /\ feed_response' = "error"
    /\ pc' = "error"
    /\ session' = "closed"
    /\ query_url' = <<>>
    /\ \E m \in FeedMsgs : shown' = Append(shown, Item("error", m))
    /\ UNCHANGED <<search_vars, fn_vars>>

\* lines 125-155: the feed arrives and is parsed, the coroutines of both kinds
\* are created, and gather makes tasks of the BibTeX ones; the loop runs
\* each to its first suspension, in feed order, before anything else.  The
\* metadata coroutines stay unstarted until line 156
FeedFetched ==
    /\ pc = "feed"
    /\ \E f \in Feeds :
          /\ feed' = f
          /\ bibtex_tasks' = [i \in DOMAIN f |-> BibtexTask(f[i])]
          /\ metadata_tasks' = [i \in DOMAIN f |-> MetadataTask(f[i])]
          /\ bib_order' = SelectSeq([i \in DOMAIN f |-> i],
                                    LAMBDA i : BibtexTask(f[i]).st = "done")
    /\ query_url' = <<>>
    /\ feed_response' = "ok"
    /\ pc' = "bib"
    /\ UNCHANGED <<session, bibtex_entries, metadata_texts, bibtex_dict,
                   synthesis_tasks, important_information, shown, fn_vars>>

\* the BibTeX request without the try of line 56: its exception leaves the
\* task, gather and search_arxiv
BibResponseUncaught(i) ==
    /\ pc = "bib"
    /\ i \in DOMAIN bibtex_tasks
    /\ bibtex_tasks[i].st = "inflight"
    /\ session = "open"
    /\ \/ /\ \E r \in BibBodies(bibtex_tasks[i].url) :
                bibtex_tasks' = [bibtex_tasks EXCEPT ![i].st = "done", ![i].url = <<>>, ![i].result = r]
          /\ bib_order' = Append(bib_order, i)
          /\ UNCHANGED <<pc, session, query_url, feed_response, feed, metadata_tasks, bibtex_entries,
                         metadata_texts, bibtex_dict, synthesis_tasks, important_information,
                         shown, fn_vars>>
       \/ /\ \E m \in Msgs : shown' = Append(shown, Item("error", m))
          /\ pc' = "error"
          /\ session' = "closed"
          /\ Cleared
          /\ UNCHANGED <<query_url, feed_response, fn_vars>>

\* lines 64-68: the request ends, with the record or with an exception that
\* line 68 turns into the sentinel
BibResponse(i) ==
    /\ pc = "bib"
    /\ i \in DOMAIN bibtex_tasks
    /\ bibtex_tasks[i].st = "inflight"
    /\ session = "open"
    /\ \E r \in BibBodies(bibtex_tasks[i].url) \cup {ErrBibTeX \o m : m \in Msgs} :
          bibtex_tasks' = [bibtex_tasks EXCEPT ![i].st = "done", ![i].url = <<>>, ![i].result = r]
    /\ bib_order' = Append(bib_order, i)
    /\ UNCHANGED <<pc, session, query_url, feed_response, feed, metadata_tasks, bibtex_entries, metadata_texts,
                   bibtex_dict, synthesis_tasks, important_information, shown, fn_vars>>

\* line 155 collecting the BibTeX results in the order of completion
BibGatheredAsCompleted ==
    /\ pc = "bib"
    /\ AllDone(bibtex_tasks)
    /\ bibtex_entries' = [k \in DOMAIN bibtex_tasks |->
                              IF k <= Len(bib_order) THEN bibtex_tasks[bib_order[k]].result
                              ELSE bibtex_tasks[k].result]
    /\ metadata_tasks' = [i \in DOMAIN metadata_tasks |-> [metadata_tasks[i] EXCEPT
                               !.st = IF metadata_tasks[i].kind = "summary" THEN "sleeping" ELSE "inflight"]]
    /\ pc' = "meta"
    /\ UNCHANGED <<session, query_url, feed_response, feed, bibtex_tasks, bib_order, metadata_texts, bibtex_dict,
                   synthesis_tasks, important_information, shown, fn_vars>>

\* line 155 returning as soon as one BibTeX task is done
BibGatheredFirstCompleted ==
    /\ pc = "bib"
    /\ \E i \in DOMAIN bibtex_tasks : bibtex_tasks[i].st = "done"
    /\ bibtex_entries' = Gather(bibtex_tasks)
    /\ metadata_tasks' = [i \in DOMAIN metadata_tasks |-> [metadata_tasks[i] EXCEPT
                               !.st = IF metadata_tasks[i].kind = "summary" THEN "sleeping" ELSE "inflight"]]
    /\ pc' = "meta"
    /\ UNCHANGED <<session, query_url, feed_response, feed, bibtex_tasks, bib_order, metadata_texts, bibtex_dict,
                   synthesis_tasks, important_information, shown, fn_vars>>

\* lines 155-156, 72, 92 and 152: every BibTeX task is done, gather returns
\* their results, the second gather makes tasks of the metadata coroutines
\* and the loop runs each to its first suspension: its request, or the
\* yield of asyncio.sleep(0)
BibGathered ==
    /\ pc = "bib"
    /\ AllDone(bibtex_tasks)
    /\ bibtex_entries' = Gather(bibtex_tasks)
    /\ metadata_tasks' = [i \in DOMAIN metadata_tasks |-> [metadata_tasks[i] EXCEPT
                               !.st = IF metadata_tasks[i].kind = "summary" THEN "sleeping" ELSE "inflight"]]
    /\ pc' = "meta"
    /\ UNCHANGED <<session, query_url, feed_response, feed, bibtex_tasks, bib_order, metadata_texts, bibtex_dict,
                   synthesis_tasks, important_information, shown, fn_vars>>

\* line 152: asyncio.sleep(0, result=...) resumes with the trimmed summary
SleepDone(i) ==
    /\ pc = "meta"
    /\ i \in DOMAIN metadata_tasks
    /\ metadata_tasks[i].st = "sleeping"
    /\ metadata_tasks' = [metadata_tasks EXCEPT ![i].st = "done", ![i].result = metadata_tasks[i].arg]
    /\ UNCHANGED <<pc, session, query_url, feed_response, feed, bibtex_tasks, bib_order, bibtex_entries,
                   metadata_texts, bibtex_dict, synthesis_tasks, important_information,
                   shown, fn_vars>>

\* the PDF request without the try of line 71: its exception leaves the
\* task, gather and search_arxiv
PdfResponseUncaught(i) ==
    /\ pc = "meta"
    /\ i \in DOMAIN metadata_tasks
    /\ metadata_tasks[i].kind = "pdf"
    /\ metadata_tasks[i].st = "inflight"
    /\ session = "open"
    /\ \/ /\ \E c \in PdfContents(metadata_tasks[i].arg) :
                metadata_tasks' = [metadata_tasks EXCEPT ![i].st = "parsing", ![i].net = "ok", ![i].content = c]
          /\ UNCHANGED <<pc, session, query_url, feed_response, feed, bibtex_tasks, bib_order,
                         bibtex_entries, metadata_texts, bibtex_dict, synthesis_tasks,
                         important_information, shown, fn_vars>>
       \/ /\ \E m \in Msgs : shown' = Append(shown, Item("error", m))
          /\ pc' = "error"
          /\ session' = "closed"
          /\ Cleared
          /\ UNCHANGED <<query_url, feed_response, fn_vars>>

\* lines 72-74 and 86-88: the PDF request ends: with the bytes, handed to a
\* worker thread, or with an exception that line 88 turns into the sentinel
PdfResponse(i) ==
    /\ pc = "meta"
    /\ i \in DOMAIN metadata_tasks
    /\ metadata_tasks[i].kind = "pdf"
    /\ metadata_tasks[i].st = "inflight"
    /\ session = "open"
    /\ \/ \E c \in PdfContents(metadata_tasks[i].arg) :
             metadata_tasks' = [metadata_tasks EXCEPT ![i].st = "parsing", ![i].net = "ok", ![i].content = c]
       \/ \E m \in Msgs :
             metadata_tasks' = [metadata_tasks EXCEPT ![i].st = "done", ![i].net = "error",
                                     ![i].result = ErrPdf \o m]
    /\ UNCHANGED <<pc, session, query_url, feed_response, feed, bibtex_tasks, bib_order, bibtex_entries,
                   metadata_texts, bibtex_dict, synthesis_tasks, important_information,
                   shown, fn_vars>>

\* the parse without the try of line 71: the exception of PdfReader leaves
\* the task, gather and search_arxiv
PdfParsedUncaught(i) ==
    /\ pc = "meta"
    /\ i \in DOMAIN metadata_tasks
    /\ metadata_tasks[i].st = "parsing"
    /\ IF metadata_tasks[i].content.valid
       THEN /\ metadata_tasks' = [metadata_tasks EXCEPT ![i].st = "done", ![i].content = NoContent,
                                        ![i].result = extract_text(metadata_tasks[i].content)]
            /\ UNCHANGED <<pc, session, query_url, feed_response, feed, bibtex_tasks, bib_order,
                           bibtex_entries, metadata_texts, bibtex_dict, synthesis_tasks,
                           important_information, shown, fn_vars>>
       ELSE /\ \E m \in ParseMsgs : shown' = Append(shown, Item("error", m))
            /\ pc' = "error"
            /\ session' = "closed"
            /\ Cleared
            /\ UNCHANGED <<query_url, feed_response, fn_vars>>

\* lines 76-88: the worker thread ends: with the text of extract_text, or
\* with the exception of PdfReader that line 88 turns into the sentinel
PdfParsed(i) ==
    /\ pc = "meta"
    /\ i \in DOMAIN metadata_tasks
    /\ metadata_tasks[i].st = "parsing"
    /\ IF metadata_tasks[i].content.valid
       THEN metadata_tasks' = [metadata_tasks EXCEPT ![i].st = "done", ![i].content = NoContent,
                                   ![i].result = extract_text(metadata_tasks[i].content)]
       ELSE \E m \in ParseMsgs :
               metadata_tasks' = [metadata_tasks EXCEPT ![i].st = "done", ![i].content = NoContent,
                                     ![i].result = ErrPdf \o m]
    /\ UNCHANGED <<pc, session, query_url, feed_response, feed, bibtex_tasks, bib_order, bibtex_entries,
                   metadata_texts, bibtex_dict, synthesis_tasks, important_information,
                   shown, fn_vars>>

\* lines 92-100: the page request ends: with the page, cleaned, or with an
\* exception that line 100 turns into the sentinel
HtmlResponse(i) ==
    /\ pc = "meta"
    /\ i \in DOMAIN metadata_tasks
    /\ metadata_tasks[i].kind = "html"
    /\ metadata_tasks[i].st = "inflight"
    /\ session = "open"
    /\ \/ \E h \in HtmlDocs(metadata_tasks[i].arg) :
             metadata_tasks' = [metadata_tasks EXCEPT ![i].st = "done", ![i].net = "ok",
                                   ![i].result = cleaned_text(h)]
       \/ \E m \in Msgs :
             metadata_tasks' = [metadata_tasks EXCEPT ![i].st = "done", ![i].net = "error",
                                   ![i].result = ErrHtml \o m]
    /\ UNCHANGED <<pc, session, query_url, feed_response, feed, bibtex_tasks, bib_order, bibtex_entries,
                   metadata_texts, bibtex_dict, synthesis_tasks, important_information,
                   shown, fn_vars>>

\* line 156 returning as soon as one metadata task is done
MetaGatheredEarly ==
    /\ pc = "meta"
    /\ \E i \in DOMAIN metadata_tasks : metadata_tasks[i].st = "done"
    /\ metadata_texts' = Gather(metadata_tasks)
    /\ bibtex_dict' = MakeDict(<<>>, bibtex_entries)
    /\ synthesis_tasks' = SynthesisTasks(metadata_texts')
    /\ pc' = "synth"
    /\ UNCHANGED <<session, query_url, feed_response, feed, bibtex_tasks, bib_order, metadata_tasks,
                   bibtex_entries, important_information, shown, fn_vars>>

\* lines 156-163: every metadata task is done, gather returns their results,
\* the dict is built, the third gather makes one synthesis task per text and
\* the loop runs each to its call of the service
MetaGathered ==
    /\ pc = "meta"
    /\ AllDone(metadata_tasks)
    /\ metadata_texts' = Gather(metadata_tasks)
    /\ bibtex_dict' = MakeDict(<<>>, bibtex_entries)
    /\ synthesis_tasks' = SynthesisTasks(metadata_texts')
    /\ pc' = "synth"
    /\ UNCHANGED <<session, query_url, feed_response, feed, bibtex_tasks, bib_order, metadata_tasks,
                   bibtex_entries, important_information, shown, fn_vars>>

\* lines 113-117: the service answers with a structured response
SynthResponse(i) ==
    /\ pc = "synth"
    /\ i \in DOMAIN synthesis_tasks
    /\ synthesis_tasks[i].st = "running"
    /\ \E res \in Responses(synthesis_tasks[i].text) :
          synthesis_tasks' = [synthesis_tasks EXCEPT ![i].st = "done", ![i].res = res,
                                 ![i].result = RetrieveImportant(res)]
    /\ UNCHANGED <<pc, session, query_url, feed_response, feed, bibtex_tasks, bib_order, metadata_tasks,
                   bibtex_entries, metadata_texts, bibtex_dict, important_information,
                   shown, fn_vars>>

\* lines 104-113, 163, 282 and 290-291: the call of the service raises (the
\* call fails, or no well-formed response is had); nothing catches it in the
\* task, gather re-raises it in search_arxiv, it leaves the `async with`,
\* which closes the session, line 291 shows it and main returns
SynthFails(i) ==
    /\ pc = "synth"
    /\ i \in DOMAIN synthesis_tasks
    /\ synthesis_tasks[i].st = "running"
    /\ pc' = "error"
    /\ session' = "closed"
    /\ \E m \in LlmMsgs : shown' = Append(shown, Item("error", m))
    /\ Cleared
    /\ UNCHANGED <<query_url, feed_response, fn_vars>>

\* lines 163-165, 283 and 171: every synthesis task is done, search_arxiv
\* returns the dict and the list, and generate_report_markdown runs to its
\* call of the service
SynthGathered ==
    /\ pc = "synth"
    /\ AllDone(synthesis_tasks)
    /\ important_information' = Gather(synthesis_tasks)
    /\ pc' = "report"
    /\ UNCHANGED <<session, query_url, feed_response, feed, bibtex_tasks, bib_order, metadata_tasks,
                   bibtex_entries, metadata_texts, bibtex_dict, synthesis_tasks,
                   shown, fn_vars>>

\* lines 283-287 with a session that is not closed when the block is left
ReportGeneratedSessionKept ==
    /\ pc = "report"
    /\ \E r \in Reports :
          \/ /\ shown' = shown \o <<Item("markdown", r), Item("download", <<>>)>>
             /\ pc' = "done"
          \/ /\ \E m \in RenderMsgs : shown' = shown \o <<Item("markdown", r), Item("error", m)>>
             /\ pc' = "error"
    /\ Cleared
    /\ UNCHANGED <<session, query_url, feed_response, fn_vars>>

\* lines 184-287 and 290-291: the report arrives (report_md), the session is
\* closed, the report is shown and rendered and main returns; if the rendering raises,
\* line 291 shows the exception
ReportGenerated ==
    /\ pc = "report"
    /\ session' = "closed"
    /\ \E r \in Reports :
          \/ /\ shown' = shown \o <<Item("markdown", r), Item("download", <<>>)>>
             /\ pc' = "done"
          \/ /\ \E m \in RenderMsgs : shown' = shown \o <<Item("markdown", r), Item("error", m)>>
             /\ pc' = "error"
    /\ Cleared
    /\ UNCHANGED <<query_url, feed_response, fn_vars>>

\* a failed call for the report taken for an empty report, which is shown
\* and rendered
ReportFailsDisplayed ==
    /\ pc = "report"
    /\ session' = "closed"
    /\ pc' = "error"
    /\ \E m \in ReportMsgs :
          shown' = shown \o <<Item("markdown", <<>>), Item("download", <<>>), Item("error", m)>>
    /\ Cleared
    /\ UNCHANGED <<query_url, feed_response, fn_vars>>

\* lines 171-182 and 290-291: the call of the service raises; the session is
\* closed, line 291 shows the exception and main returns
ReportFails ==
    /\ pc = "report"
    /\ session' = "closed"
    /\ pc' = "error"
    /\ \E m \in ReportMsgs : shown' = Append(shown, Item("error", m))
    /\ Cleared
    /\ UNCHANGED <<query_url, feed_response, fn_vars>>

Next ==
    \/ GenerateReport
    \/ FeedFetchFails
    \/ FeedFetched
    \/ \E i \in 1..MaxEntries : BibResponse(i)
    \/ BibGathered
    \/ \E i \in 1..MaxEntries : SleepDone(i)
    \/ \E i \in 1..MaxEntries : PdfResponse(i)
    \/ \E i \in 1..MaxEntries : PdfParsed(i)
    \/ \E i \in 1..MaxEntries : HtmlResponse(i)
    \/ MetaGathered
    \/ \E i \in 1..MaxEntries : SynthResponse(i)
    \/ \E i \in 1..MaxEntries : SynthFails(i)
    \/ SynthGathered
    \/ ReportGenerated
    \/ ReportFails

Spec == Init /\ [][Next]_vars

\* ------------------------------------------- a search over three entries

\* the feeds of three entries of which the first has a PDF link, the second
\* has no links and the third has an identifier to ask a record for
ScenarioFeeds ==
    {f \in [1..3 -> Entries(1) \cup Entries(2) \cup Entries(3)] :
        /\ f[1] \in Entries(1) /\ f[1].links = <<AbsLink(1), PdfLink(1)>>
        /\ f[2] \in Entries(2) /\ f[2].links = <<>>
        /\ f[3] \in Entries(3) /\ arxiv_id(f[3].id) # None}

\* lines 125-155 for such a feed
ScenarioFeedFetched ==
    /\ pc = "feed"
    /\ \E f \in ScenarioFeeds :
          /\ feed' = f
          /\ bibtex_tasks' = [i \in DOMAIN f |-> BibtexTask(f[i])]
          /\ metadata_tasks' = [i \in DOMAIN f |-> MetadataTask(f[i])]
          /\ bib_order' = SelectSeq([i \in DOMAIN f |-> i],
                                    LAMBDA i : BibtexTask(f[i]).st = "done")
    /\ query_url' = <<>>
    /\ feed_response' = "ok"
    /\ pc' = "bib"
    /\ UNCHANGED <<session, bibtex_entries, metadata_texts, bibtex_dict,
                   synthesis_tasks, important_information, shown, fn_vars>>

NextScenario ==
    \/ GenerateReport
    \/ FeedFetchFails
    \/ ScenarioFeedFetched
    \/ \E i \in DOMAIN feed : BibResponse(i)
    \/ BibGathered
    \/ \E i \in DOMAIN feed : SleepDone(i)
    \/ \E i \in DOMAIN feed : PdfResponse(i)
    \/ \E i \in DOMAIN feed : PdfParsed(i)
    \/ \E i \in DOMAIN feed : HtmlResponse(i)
    \/ MetaGathered
    \/ \E i \in DOMAIN feed : SynthResponse(i)
    \/ \E i \in DOMAIN feed : SynthFails(i)
    \/ SynthGathered
    \/ ReportGenerated
    \/ ReportFails

SpecScenario == Init /\ [][NextScenario]_vars

\* the event loop runs every task that can run, the worker thread of a parse
\* ends, and every request and every call of the understanding service ends,
\* one way or the other; the user is not bound to press the button
Fairness ==
    /\ WF_vars(FeedFetchFails \/ FeedFetched)
    /\ \A i \in 1..MaxEntries :
          /\ WF_vars(BibResponse(i))
          /\ WF_vars(SleepDone(i))
          /\ WF_vars(PdfResponse(i))
          /\ WF_vars(PdfParsed(i))
          /\ WF_vars(HtmlResponse(i))
          /\ WF_vars(SynthResponse(i) \/ SynthFails(i))
    /\ WF_vars(BibGathered)
    /\ WF_vars(MetaGathered)
    /\ WF_vars(SynthGathered)
    /\ WF_vars(ReportGenerated \/ ReportFails)

FairSpec == Spec /\ Fairness

\* --------------------------------------- the functions applied on their own

StringsUpTo(alphabet, n) == UNION {[1..m -> alphabet] : m \in 0..n}

\* the texts extract_citation_key is given: every short text of the
\* characters its pattern tells apart, the records of the bibliography
\* service and the sentinels of async_get_bibtex_entry
KeyTexts ==
    StringsUpTo({"@", "a", " ", "{", ","}, MaxKeyLen)
        \cup BibBodies(<<"1">>) \cup {NoValidId} \cup {ErrBibTeX \o m : m \in Msgs}

InitKey ==
    /\ Idle
    /\ fn_in \in KeyTexts
    /\ fn_out = Unapplied

\* line 159: extract_citation_key(bibtex_entry)
ApplyExtractCitationKey ==
    /\ ~fn_out.applied
    /\ fn_out' = Applied(extract_citation_key(fn_in))
    /\ UNCHANGED <<pc, session, query_url, feed_response, search_vars, shown, fn_in>>

SpecKey == InitKey /\ [][ApplyExtractCitationKey]_vars

\* entry.id: a host, then "/abs/" and an identifier segment or the segment
\* alone; and the abstract page of an old-style identifier with a "v" in it
IdUrls ==
    {<<"x">> \o AbsMarker \o seg : seg \in StringsUpTo({"1", "v", "s"}, MaxIdLen)}
        \cup {<<"x", "/">> \o seg : seg \in StringsUpTo({"1", "v", "s"}, MaxIdLen)}
        \cup {<<"h","t","t","p",":","/","/","a","r","x","i","v",".","o","r","g","/","a","b","s","/","s","o","l","v","-","i","n","t","/","9","9","0","1","0","0","1","v","1">>}

InitId ==
    /\ Idle
    /\ fn_in \in IdUrls
    /\ fn_out = Unapplied

\* lines 56-64: async_get_bibtex_entry up to its request
ApplyBibtexTask ==
    /\ ~fn_out.applied
    /\ fn_out' = Applied(BibtexTask([id |-> fn_in, links |-> <<>>, summary |-> <<>>]))
    /\ UNCHANGED <<pc, session, query_url, feed_response, search_vars, shown, fn_in>>

SpecId == InitId /\ [][ApplyBibtexTask]_vars

\* the structured responses of the understanding service
StructuredResponses ==
    [relevant : BOOLEAN, detail : StringsUpTo({"N", "A", " "}, MaxDetailLen)]

InitRelevant ==
    /\ Idle
    /\ fn_in \in StructuredResponses
    /\ fn_out = Unapplied

\* lines 114-117
ApplyRetrieveImportant ==
    /\ ~fn_out.applied
    /\ fn_out' = Applied(RetrieveImportant(fn_in))
    /\ UNCHANGED <<pc, session, query_url, feed_response, search_vars, shown, fn_in>>

SpecRelevant == InitRelevant /\ [][ApplyRetrieveImportant]_vars

\* the links an entry can have: with or without a type, of either relation,
\* each with an address
TaskLinks ==
    [type : {"application/pdf", "text/html", "none"},
     rel : {"alternate", "related"},
     href : {<<"u">>, <<"w">>}]

\* the entries the choice of the content task is made for
TaskEntries ==
    [id : {<<"x">>},
     links : UNION {[1..n -> TaskLinks] : n \in 0..MaxLinks},
     summary : {<<" ", "S", " ", "s", "\n">>, <<"S">>, <<" ">>}]

InitTask ==
    /\ Idle
    /\ fn_in \in TaskEntries
    /\ fn_out = Unapplied

\* lines 136-152 and 156: the content coroutine of an entry, made and then
\* run to its first suspension: its request, or the yield of asyncio.sleep
ApplyMetadataTask ==
    /\ ~fn_out.applied
    /\ fn_out' = Applied([MetadataTask(fn_in) EXCEPT
                              !.st = IF MetadataTask(fn_in).kind = "summary"
                                     THEN "sleeping" ELSE "inflight"])
    /\ UNCHANGED <<pc, session, query_url, feed_response, search_vars, shown, fn_in>>

SpecTask == InitTask /\ [][ApplyMetadataTask]_vars

\* the queries a user can type: every short text of a letter, the two kinds
\* of whitespace, "%" and two digits, and queries with the word AND in them
QueryTexts ==
    StringsUpTo({"a", " ", "\t", "%", "2", "0"}, MaxQueryLen)
        \cup {<<"a"," ","A","N","D"," ","b">>, <<"A","N","D"," ","A","N","D">>,
              <<" ","a",":","b"," "," ","%","2","5","\n">>}

InitQuery ==
    /\ Idle
    /\ fn_in \in QueryTexts
    /\ fn_out = Unapplied

\* line 121: format_arxiv_query(query)
ApplyFormatArxivQuery ==
    /\ ~fn_out.applied
    /\ fn_out' = Applied(format_arxiv_query(fn_in))
    /\ UNCHANGED <<pc, session, query_url, feed_response, search_vars, shown, fn_in>>

SpecQuery == InitQuery /\ [][ApplyFormatArxivQuery]_vars

\* -------------------------------------------------------------- the claims

\* search_arxiv has returned its pair and main has not yet returned
Returned == pc = "report"

\* the task was made from the entry: its argument is the address of one of
\* the entry's links, or the entry's summary without surrounding whitespace
TaskOfEntry(task, entry) ==
    \/ \E k \in DOMAIN entry.links : task.kind # "summary" /\ task.arg = entry.links[k].href
    \/ /\ task.kind = "summary"
       /\ \E a \in 1..Len(entry.summary), b \in 1..Len(entry.summary) :
             /\ task.arg = SubSeq(entry.summary, a, b)
             /\ \A x \in 1..Len(entry.summary) : (x < a \/ x > b) => IsSpace(entry.summary[x])
             /\ ~IsSpace(entry.summary[a]) /\ ~IsSpace(entry.summary[b])

\* C1: when search_arxiv returns, the relevance list has one element per feed
\* entry, and element i is the result of the synthesis call that was given
\* the text extracted by the content task made from entry i
C1_AlignedToFeed ==
    Returned =>
        /\ Len(important_information) = Len(feed)
        /\ \A i \in DOMAIN feed :
              /\ TaskOfEntry(metadata_tasks[i], feed[i])
              /\ synthesis_tasks[i].text = metadata_tasks[i].result
              /\ synthesis_tasks[i].res \in Responses(metadata_tasks[i].result)
              /\ important_information[i] =
                    IF synthesis_tasks[i].res.relevant THEN synthesis_tasks[i].res.detail ELSE NA

C1_Witness ==
    /\ Returned
    /\ Len(feed) = 2
    /\ bib_order = <<2, 1>>
    /\ metadata_tasks[1].result # metadata_tasks[2].result
    /\ important_information[1] # NA
    /\ important_information[2] # NA
    /\ important_information[1] # important_information[2]

\* C2: past the feed fetch search_arxiv never ends with an exception: a
\* failure of a per-entry task, the understanding-service call of a paper
\* included, leaves the search running to its return
C2_OnlyFeedFetchIsFatal ==
    [][(pc \in {"bib", "meta", "synth"}) => (pc' \in {"bib", "meta", "synth", "report"})]_vars

\* the citation keys of the records of the entries, in feed order
FeedKeys == [i \in DOMAIN bibtex_tasks |-> extract_citation_key(bibtex_tasks[i].result)]

\* what the content task of an entry yields when its request fails
IsNetworkSentinel(task, text) ==
    \E m \in Msgs : text = (IF task.kind = "pdf" THEN ErrPdf ELSE ErrHtml) \o m

\* C3 as stated: with a content task failed by a network error, the failing
\* entry's text is the sentinel and is given to its synthesis, and the pair
\* returned holds a map and a list that both have one element per entry
C3_FullLengthResults ==
    \A i \in DOMAIN metadata_tasks :
        (pc \in {"synth", "report"} /\ metadata_tasks[i].net = "error") =>
            /\ IsNetworkSentinel(metadata_tasks[i], metadata_texts[i])
            /\ synthesis_tasks[i].text = metadata_texts[i]
            /\ Returned => /\ Len(important_information) = Len(feed)
                           /\ Len(bibtex_dict) = Len(feed)

\* C3 as amended: the failure of a content task does not end the search (the
\* extraction stage only ever goes on to the synthesis stage); the failing
\* entry's text is the sentinel and is given unfiltered to its synthesis, one
\* synthesis task being made per entry; and the pair returned holds a list
\* with one element per entry and a map with one item per distinct citation
\* key of the records, which is at most one per entry
C3_BatchResilience ==
    /\ [](\A i \in DOMAIN metadata_tasks :
            (pc \in {"synth", "report"} /\ metadata_tasks[i].net = "error") =>
                /\ IsNetworkSentinel(metadata_tasks[i], metadata_texts[i])
                /\ Len(synthesis_tasks) = Len(feed)
                /\ synthesis_tasks[i].text = metadata_texts[i]
                /\ Returned =>
                      /\ Len(important_information) = Len(feed)
                      /\ Len(bibtex_dict) = Cardinality({FeedKeys[j] : j \in DOMAIN FeedKeys})
                      /\ Len(bibtex_dict) \in 1..Len(feed))
    /\ [][(pc = "meta") => (pc' \in {"meta", "synth"})]_vars

C3_Witness ==
    /\ Returned
    /\ Len(feed) = 2
    /\ metadata_tasks[1].net = "error"
    /\ metadata_tasks[1].kind = "pdf"
    /\ metadata_tasks[2].net = "ok"
    /\ Len(bibtex_dict) = 1

\* C4: the result of lines 114-117 is "NA" when the relevance boolean of the
\* response is false, whatever its detail field holds, and the detail field
\* itself when the boolean is true
C4_BooleanIsAuthoritative ==
    fn_out.applied =>
        /\ ~fn_in.relevant => fn_out.value = NA
        /\ fn_in.relevant => fn_out.value = fn_in.detail

C4_Witness ==
    /\ fn_out.applied
    /\ ~fn_in.relevant
    /\ fn_in.detail = <<"A", " ", "N">>
    /\ fn_out.value = NA

\* C5: once the feed fetch has failed, main has ended with the session
\* closed, no task of any kind was made, no report was asked for or shown,
\* the page shows the one error of the fetch, and nothing more happens
C5_FeedFailureAborts ==
    feed_response = "error" =>
        /\ pc = "error"
        /\ session = "closed"
        /\ feed = <<>> /\ bibtex_tasks = <<>> /\ metadata_tasks = <<>> /\ synthesis_tasks = <<>>
        /\ bibtex_dict = <<>> /\ important_information = <<>>
        /\ Len(shown) = 1 /\ shown[1].kind = "error" /\ shown[1].text \in FeedMsgs
        /\ ~ENABLED GenerateReport /\ ~ENABLED FeedFetched /\ ~ENABLED BibGathered
        /\ ~ENABLED MetaGathered /\ ~ENABLED SynthGathered
        /\ ~ENABLED ReportGenerated /\ ~ENABLED ReportFails

C5_Witness ==
    /\ feed_response = "error"
    /\ pc = "error"
    /\ shown # <<>>

\* C6: the BibTeX fetches and the content tasks are launched together: while
\* a BibTeX fetch is in flight, no content task of the search is still an
\* unstarted coroutine
C6_LaunchedTogether ==
    \A i \in DOMAIN bibtex_tasks, j \in DOMAIN metadata_tasks :
        bibtex_tasks[i].st = "inflight" => metadata_tasks[j].st # "created"

\* C7: whenever a synthesis task exists, every content task of the search is
\* done, there is one synthesis task per feed entry, and task i was given
\* the text extracted for entry i, sentinel or not
C7_StageBarrier ==
    synthesis_tasks # <<>> =>
        /\ \A i \in DOMAIN metadata_tasks : metadata_tasks[i].st = "done"
        /\ Len(synthesis_tasks) = Len(feed)
        /\ \A i \in DOMAIN feed :
              /\ TaskOfEntry(metadata_tasks[i], feed[i])
              /\ synthesis_tasks[i].text = metadata_tasks[i].result

C7_Witness ==
    /\ pc = "synth"
    /\ Len(feed) = 2
    /\ synthesis_tasks[1].st = "running"
    /\ synthesis_tasks[2].st = "done"
    /\ StartsWith(synthesis_tasks[1].text, ErrHtml)
    /\ synthesis_tasks[2].text = <<"S", "2">>

\* the first occurrences of the elements of a sequence, in its order
RECURSIVE Dedup(_)
Dedup(keys) ==
    IF keys = <<>> THEN <<>>
    ELSE LET front == Dedup(SubSeq(keys, 1, Len(keys) - 1))
             last == keys[Len(keys)]
         IN  IF \E p \in DOMAIN front : front[p] = last THEN front ELSE Append(front, last)

DictKeys(d) == [p \in DOMAIN d |-> d[p].key]

\* C8 as stated: the keys of the map returned are in the order in which the
\* BibTeX fetches completed
C8_CompletionOrder ==
    Returned =>
        DictKeys(bibtex_dict) =
            Dedup([k \in DOMAIN bib_order |->
                      extract_citation_key(bibtex_tasks[bib_order[k]].result)])

\* C8 as amended: the keys of the map returned are in the order of the
\* entries of the feed, each key where the first entry that yields it
\* stands, whatever the order in which the BibTeX fetches completed
C8_FeedOrder == Returned => DictKeys(bibtex_dict) = Dedup(FeedKeys)

C8_Witness ==
    /\ Returned
    /\ bib_order = <<2, 1>>
    /\ Len(bibtex_dict) = 2
    /\ bibtex_dict[1].value = bibtex_tasks[1].result
    /\ bibtex_dict[2].value = bibtex_tasks[2].result

\* the text holds a match of the pattern: "@", one or more word characters,
\* whitespace, "{", then one or more characters other than a comma, then ","
HasPattern(s) ==
    \E a \in 1..Len(s), b \in 1..Len(s), c \in 1..Len(s) :
        /\ s[a] = "@" /\ s[b] = "{" /\ s[c] = ","
        /\ a + 1 < b /\ b + 1 < c
        /\ \E w \in (a + 2)..b :
              /\ \A k \in (a + 1)..(w - 1) : IsWord(s[k])
              /\ \A k \in w..(b - 1) : IsSpace(s[k])
        /\ \A k \in (b + 1)..(c - 1) : s[k] # ","

\* the text is a record: "@", a type word, "{", a key, ","
RecordForm(s) ==
    \E b \in 3..Len(s), c \in 5..Len(s) :
        /\ s[1] = "@" /\ s[b] = "{" /\ s[c] = ","
        /\ b + 1 < c
        /\ \A k \in 2..(b - 1) : IsWord(s[k])
        /\ \A k \in (b + 1)..(c - 1) : s[k] # ","

\* the key of a record, as written between the brace and the comma
RecordKey(s) ==
    LET b == CHOOSE x \in 1..Len(s) : s[x] = "{" /\ \A k \in 1..(x - 1) : s[k] # "{"
        c == CHOOSE x \in 1..Len(s) : s[x] = "," /\ \A k \in 1..(x - 1) : s[k] # ","
    IN  SubSeq(s, b + 1, c - 1)

\* t is k without the whitespace around it
IsTrimOf(t, k) ==
    \E i \in 1..(Len(k) + 1), j \in 0..Len(k) :
        /\ t = SubSeq(k, i, j)
        /\ \A x \in 1..Len(k) : (x < i \/ x > j) => IsSpace(k[x])
        /\ t # <<>> => ~IsSpace(k[i]) /\ ~IsSpace(k[j])

BibSentinels == {NoValidId} \cup {ErrBibTeX \o m : m \in Msgs}

NoKeyFound == <<"n","o"," ","k","e","y"," ","f","o","u","n","d">>

\* C9 as stated: extraction yields a value for every text: the trimmed key of
\* a record, and the string "no key found" for a text without the pattern,
\* the sentinels among them
C9_NoKeyFoundString ==
    /\ ~fn_out.applied => ENABLED ApplyExtractCitationKey
    /\ fn_out.applied =>
          /\ RecordForm(fn_in) => IsTrimOf(fn_out.value, RecordKey(fn_in))
          /\ ~HasPattern(fn_in) => fn_out.value = NoKeyFound
          /\ fn_in \in BibSentinels => fn_out.value = NoKeyFound

\* C9 as amended: extraction yields a value for every text: the trimmed key
\* of a record, and None, which is no string, for a text without the
\* pattern, the sentinels among them
C9_NoneWithoutPattern ==
    /\ ~fn_out.applied => ENABLED ApplyExtractCitationKey
    /\ fn_out.applied =>
          /\ RecordForm(fn_in) => IsTrimOf(fn_out.value, RecordKey(fn_in))
          /\ ~HasPattern(fn_in) => fn_out.value = None
          /\ fn_in \in BibSentinels => fn_out.value = None

C9_Witness ==
    /\ fn_out.applied
    /\ fn_in \in {ErrBibTeX \o m : m \in Msgs}
    /\ fn_out.value = None

IsDigit(c) == c \in {"0","1","2","3","4","5","6","7","8","9"}

\* the URL reads "/abs/" from index p on
MarkerAt(s, p) ==
    /\ p + Len(AbsMarker) - 1 <= Len(s)
    /\ \A k \in 1..Len(AbsMarker) : s[p + k - 1] = AbsMarker[k]

HasMarker(s) == \E p \in 1..Len(s) : MarkerAt(s, p)

\* what follows the first "/abs/" of a URL that has one
SegmentAfterMarker(s) ==
    LET p == CHOOSE x \in 1..Len(s) : MarkerAt(s, x) /\ \A y \in 1..(x - 1) : ~MarkerAt(s, y)
    IN  SubSeq(s, p + Len(AbsMarker), Len(s))

\* the segment without a trailing version marker: a "v" and the digits, one
\* or more, that end the segment
WithoutVersion(seg) ==
    IF \E j \in 1..(Len(seg) - 1) : seg[j] = "v" /\ \A k \in (j + 1)..Len(seg) : IsDigit(seg[k])
    THEN LET j == CHOOSE x \in 1..(Len(seg) - 1) :
                      seg[x] = "v" /\ \A k \in (x + 1)..Len(seg) : IsDigit(seg[k])
         IN  SubSeq(seg, 1, j - 1)
    ELSE seg

\* C10: for a URL with "/abs/" the request is for the segment after it
\* without its trailing version marker and nothing else removed; for a URL
\* without "/abs/" the coroutine returns the sentinel and makes no request
C10_OnlyVersionStripped ==
    fn_out.applied =>
        IF HasMarker(fn_in)
        THEN /\ fn_out.value.st = "inflight"
             /\ fn_out.value.url = BibtexBase \o WithoutVersion(SegmentAfterMarker(fn_in))
        ELSE /\ fn_out.value.st = "done"
             /\ fn_out.value.result = NoValidId
             /\ fn_out.value.url = <<>>

\* the citation keys of the results of a sequence of tasks, in its order
RECURSIVE KeysOf(_)
KeysOf(tasks) ==
    IF tasks = <<>> THEN <<>>
    ELSE <<extract_citation_key(Head(tasks).result)>> \o KeysOf(Tail(tasks))

\* what the BibTeX request of entry i can end with: a record of the service
\* on success, the sentinel of line 68 on failure
BibRecords(i) == BibBodies(bibtex_url(arxiv_id(feed[i].id)))

BibErrors == {ErrBibTeX \o m : m \in Msgs}

\* C11: the BibTeX stage never ends the search: every BibTeX task whose
\* request has ended holds a string, a record of the service or a sentinel
\* that starts with "Error retrieving BibTeX: ", and the stage ends with the
\* list of these strings; and the step that builds the map builds it from
\* records and sentinels alike, an item for each of them under its key
C11_BibtexNeverRaises ==
    /\ [](pc = "bib" =>
            \A i \in DOMAIN bibtex_tasks :
                (bibtex_tasks[i].st = "done" /\ arxiv_id(feed[i].id) # None) =>
                    /\ bibtex_tasks[i].result \in BibRecords(i) \cup BibErrors
                    /\ bibtex_tasks[i].result \notin BibRecords(i) =>
                          StartsWith(bibtex_tasks[i].result, ErrBibTeX))
    /\ [][(pc = "bib") =>
             /\ pc' \in {"bib", "meta"}
             /\ pc' = "meta" => bibtex_entries' = [i \in DOMAIN feed |-> bibtex_tasks[i].result]]_vars
    /\ [][(pc = "meta" /\ AllDone(metadata_tasks)) =>
             /\ pc' = "synth"
             /\ LET keys == KeysOf(bibtex_tasks)
                IN  /\ \A i \in DOMAIN bibtex_entries :
                          \E p \in DOMAIN bibtex_dict' : bibtex_dict'[p].key = keys[i]
                    /\ \A p \in DOMAIN bibtex_dict' :
                          \E i \in DOMAIN bibtex_entries :
                                /\ bibtex_dict'[p].value = bibtex_entries[i]
                                /\ bibtex_dict'[p].key = keys[i]]_vars

C11_Witness ==
    /\ Returned
    /\ Len(feed) = 2
    /\ bibtex_entries[1] \in BibErrors
    /\ bibtex_entries[2] \in BibRecords(2)
    /\ Len(bibtex_dict) = 2
    /\ bibtex_dict[1] = [key |-> None, value |-> bibtex_entries[1]]

\* C12: the one content task of an entry is the PDF request, for the address
\* of a link of type application/pdf, whenever the entry has such a link;
\* else the page request, for the address of a link of relation alternate,
\* when it has such a link; else the sleep that yields the summary without
\* the whitespace around it, which makes no request
C12_SourcePriority ==
    fn_out.applied =>
        LET links == fn_in.links
            task == fn_out.value
            has_pdf == \E k \in DOMAIN links : links[k].type = "application/pdf"
            has_alt == \E k \in DOMAIN links : links[k].rel = "alternate"
        IN  /\ has_pdf =>
                  /\ task.kind = "pdf" /\ task.st = "inflight"
                  /\ \E k \in DOMAIN links :
                        links[k].type = "application/pdf" /\ task.arg = links[k].href
            /\ (~has_pdf /\ has_alt) =>
                  /\ task.kind = "html" /\ task.st = "inflight"
                  /\ \E k \in DOMAIN links :
                        links[k].rel = "alternate" /\ task.arg = links[k].href
            /\ (~has_pdf /\ ~has_alt) =>
                  /\ task.kind = "summary" /\ task.st = "sleeping"
                  /\ IsTrimOf(task.arg, fn_in.summary)

C12_Witness ==
    /\ fn_out.applied
    /\ Len(fn_in.links) = 3
    /\ fn_in.links[1] = [type |-> "application/pdf", rel |-> "related", href |-> <<"u">>]
    /\ fn_in.links[2].rel = "alternate" /\ fn_in.links[2].type = "text/html"
    /\ fn_in.links[3].rel = "alternate" /\ fn_in.links[3].type = "none"
    /\ fn_out.value.kind = "pdf"
    /\ fn_out.value.arg = <<"u">>

\* the character a percent escape stands for, "" when it is none known
Unescape(h1, h2) ==
    CASE h1 = "2" /\ h2 = "0" -> " "
      [] h1 = "3" /\ h2 = "A" -> ":"
      [] h1 = "2" /\ h2 = "5" -> "%"
      [] h1 = "2" /\ h2 = "B" -> "+"
      [] h1 = "0" /\ h2 = "A" -> "\n"
      [] h1 = "0" /\ h2 = "9" -> "\t"
      [] h1 = "2" /\ h2 = "6" -> "&"
      [] h1 = "3" /\ h2 = "D" -> "="
      [] OTHER -> ""

\* percent-decoding, one pass from the left: an escape becomes its
\* character, anything else stays
RECURSIVE Unquote(_)
Unquote(s) ==
    IF s = <<>> THEN <<>>
    ELSE IF s[1] = "%" /\ Len(s) >= 3 /\ Unescape(s[2], s[3]) # ""
    THEN <<Unescape(s[2], s[3])>> \o Unquote(SubSeq(s, 4, Len(s)))
    ELSE <<s[1]>> \o Unquote(Tail(s))

\* the whitespace-separated tokens of a text, as <<first, last>> index pairs:
\* the maximal runs of characters that are not whitespace
TokenRuns(s) ==
    {r \in (1..Len(s)) \X (1..Len(s)) :
        /\ r[1] <= r[2]
        /\ \A k \in r[1]..r[2] : ~IsSpace(s[k])
        /\ r[1] = 1 \/ IsSpace(s[r[1] - 1])
        /\ r[2] = Len(s) \/ IsSpace(s[r[2] + 1])}

\* the tokens in the order in which they stand in the text
Tokens(s) ==
    [i \in 1..Cardinality(TokenRuns(s)) |->
        LET r == CHOOSE x \in TokenRuns(s) :
                     Cardinality({y \in TokenRuns(s) : y[1] < x[1]}) = i - 1
        IN  SubSeq(s, r[1], r[2])]

\* C13: for a query with a token, the percent-decoded result split on " AND "
\* is the tokens of the query in their order, each after "all:"; for a query
\* without a token the result is the empty string; and the result is the
\* one value the function has for that query
C13_QueryRoundTrip ==
    fn_out.applied =>
        /\ Tokens(fn_in) # <<>> =>
              Split(Unquote(fn_out.value), AndOp) =
                  [i \in DOMAIN Tokens(fn_in) |-> AllPrefix \o Tokens(fn_in)[i]]
        /\ Tokens(fn_in) = <<>> => fn_out.value = <<>>
        /\ fn_out.value = format_arxiv_query(fn_in)

C13_Witness ==
    /\ fn_out.applied
    /\ fn_in = <<"%", "2", "0", "\t", "a">>
    /\ Unquote(fn_out.value) = <<"a","l","l",":","%","2","0"," ","A","N","D"," ","a","l","l",":","a">>
    /\ fn_out.value # Unquote(fn_out.value)

\* the search has returned for a feed of three entries: the first with a PDF
\* link and judged relevant, the second without links, with its summary
\* judged not relevant, the third with its BibTeX fetch failed; the first
\* two with records of two citation keys
Scenario ==
    /\ Returned
    /\ Len(feed) = 3
    /\ \E k \in DOMAIN feed[1].links : feed[1].links[k].type = "application/pdf"
    /\ synthesis_tasks[1].res.relevant
    /\ feed[2].links = <<>>
    /\ ~synthesis_tasks[2].res.relevant
    /\ bibtex_entries[3] \in BibErrors
    /\ FeedKeys[1] # None /\ FeedKeys[2] # None /\ FeedKeys[1] # FeedKeys[2]

\* the relevance list of the scenario: three elements in feed order, the
\* first the detail found in the text of the PDF task, the second "NA"
ScenarioList ==
    /\ Len(important_information) = 3
    /\ \A i \in 1..3 : synthesis_tasks[i].text = metadata_tasks[i].result
    /\ metadata_tasks[1].kind = "pdf"
    /\ important_information[1] = synthesis_tasks[1].res.detail
    /\ metadata_tasks[2].kind = "summary"
    /\ important_information[2] = NA

\* C14 as stated: the map of the scenario has three keys, the two citation
\* keys and the key "no key found" of the sentinel, and the list is as told
C14_ScenarioNoKeyFound ==
    Scenario =>
        /\ Len(bibtex_dict) = 3
        /\ {bibtex_dict[p].key : p \in DOMAIN bibtex_dict} = {FeedKeys[1], FeedKeys[2], NoKeyFound}
        /\ ScenarioList

\* C14 as amended: the map of the scenario has three keys, the two citation
\* keys and None, under which the sentinel stands, and the list is as told
C14_ScenarioNoneKey ==
    Scenario =>
        /\ Len(bibtex_dict) = 3
        /\ {bibtex_dict[p].key : p \in DOMAIN bibtex_dict} = {FeedKeys[1], FeedKeys[2], None}
        /\ \E p \in DOMAIN bibtex_dict : bibtex_dict[p] = [key |-> None, value |-> bibtex_entries[3]]
        /\ ScenarioList

C14_Witness ==
    /\ Scenario
    /\ Len(bibtex_dict) = 3
    /\ important_information[1] # NA
    /\ important_information[2] = NA
    /\ important_information[3] # NA

\* the entry latest in feed order whose record has the key
LastWithKey(keys, key) ==
    CHOOSE i \in DOMAIN keys : keys[i] = key /\ \A j \in DOMAIN keys : keys[j] = key => j <= i

\* C15: the map returned has one item per distinct key of the records, so no
\* more items than entries, all sentinels standing under the one key they
\* share; and the record under a key is that of the entry latest in feed
\* order that has the key, whatever the order in which the fetches completed
C15_LastInFeedOrderWins ==
    Returned =>
        LET keys == KeysOf(bibtex_tasks)
        IN  /\ \A p, q \in DOMAIN bibtex_dict : bibtex_dict[p].key = bibtex_dict[q].key => p = q
            /\ {bibtex_dict[p].key : p \in DOMAIN bibtex_dict} = {keys[i] : i \in DOMAIN keys}
            /\ Len(bibtex_dict) <= Len(feed)
            /\ \A i \in DOMAIN bibtex_tasks :
                  bibtex_tasks[i].result \in BibSentinels => keys[i] = None
            /\ \A p \in DOMAIN bibtex_dict :
                  bibtex_dict[p].value = bibtex_tasks[LastWithKey(keys, bibtex_dict[p].key)].result

C15_Witness ==
    /\ Returned
    /\ Len(feed) = 2
    /\ bib_order = <<2, 1>>
    /\ FeedKeys[1] = <<"k">> /\ FeedKeys[2] = <<"k">>
    /\ bibtex_tasks[1].result # bibtex_tasks[2].result
    /\ bibtex_dict = <<[key |-> <<"k">>, value |-> bibtex_tasks[2].result]>>

\* a request is issued or held on the session: the feed request, the request
\* of a BibTeX task or the request of a content task, whose response is held
\* while its PDF is parsed
RequestHeld ==
    \/ query_url # <<>>
    \/ \E i \in DOMAIN bibtex_tasks : bibtex_tasks[i].st = "inflight"
    \/ \E i \in DOMAIN metadata_tasks : metadata_tasks[i].st \in {"inflight", "parsing"}

\* C16: the session is opened once, when the cycle starts, and is closed
\* however the cycle ends; a request is only ever held on the open session,
\* and at the step that closes the session no request is held and none is
\* left behind
C16_SessionLifetime ==
    /\ [](/\ pc \in {"idle", "warned"} => session = "none"
          /\ pc \in {"feed", "bib", "meta", "synth", "report"} => session = "open"
          /\ pc \in {"done", "error"} => session = "closed"
          /\ RequestHeld => session = "open")
    /\ [][(session' # session) =>
             \/ session = "none" /\ session' = "open" /\ pc = "idle"
             \/ /\ session = "open" /\ session' = "closed"
                /\ pc' \in {"done", "error"}
                /\ \A i \in DOMAIN bibtex_tasks : bibtex_tasks[i].st # "inflight"
                /\ \A i \in DOMAIN metadata_tasks : metadata_tasks[i].st \notin {"inflight", "parsing"}
                /\ ~RequestHeld']_vars

C16_Witness ==
    /\ pc = "error"
    /\ session = "closed"
    /\ feed_response = "ok"
    /\ Len(shown) = 1
    /\ shown[1].kind = "error"
    /\ ~RequestHeld

\* a BibTeX fetch or a content fetch of the search has not completed
FetchPending ==
    \/ \E i \in DOMAIN bibtex_tasks : bibtex_tasks[i].st = "inflight"
    \/ \E i \in DOMAIN metadata_tasks : metadata_tasks[i].st = "inflight"

\* the cycle has ended: with the report on the page, or with an error on it
CycleEnded ==
    \/ pc = "done" /\ \E k \in DOMAIN shown : shown[k].kind = "markdown"
    \/ pc = "error" /\ shown[Len(shown)].kind = "error"

\* C17: with every request and every call ending, a cycle that has started
\* ends, with the report or with an error; and as long as one BibTeX or
\* content fetch has not completed the cycle has not ended and has no
\* synthesis task, nothing but the completion of the fetch, no timeout,
\* taking the search out of the stage it waits in
C17_TerminationAndStall ==
    /\ (pc = "feed") ~> CycleEnded
    /\ [](FetchPending =>
            /\ pc \in {"bib", "meta"}
            /\ synthesis_tasks = <<>>
            /\ ~CycleEnded)
    /\ [][(FetchPending /\ FetchPending') => (pc' = pc /\ synthesis_tasks' = <<>>)]_vars

C17_Witness ==
    /\ pc = "bib"
    /\ Len(feed) = 2
    /\ bibtex_tasks[1].st = "inflight"
    /\ bibtex_tasks[2].st = "done"
    /\ metadata_tasks[2].st = "created"
    /\ synthesis_tasks = <<>>

\* C18: the call for the report is made only once search_arxiv has returned
\* the map and the list, every synthesis done and the list holding one result
\* per entry; and when that call fails the page shows the one error of the
\* call and nothing else: no report, no download of a rendering
C18_ReportFailureIsFatal ==
    /\ [](pc = "report" =>
            /\ AllDone(synthesis_tasks)
            /\ Len(important_information) = Len(feed)
            /\ \A i \in DOMAIN feed : important_information[i] = synthesis_tasks[i].result
            /\ {bibtex_dict[p].key : p \in DOMAIN bibtex_dict} = {FeedKeys[i] : i \in DOMAIN FeedKeys}
            /\ shown = <<>>)
    /\ [][(pc' = "report" /\ pc # "report") => (pc = "synth" /\ AllDone(synthesis_tasks))]_vars
    /\ [](\A k \in DOMAIN shown :
            (shown[k].kind = "error" /\ shown[k].text \in ReportMsgs) =>
                /\ pc = "error"
                /\ Len(shown) = 1
                /\ session = "closed")
    /\ [][(pc = "report" /\ pc' # "report") =>
             \/ pc' = "error" /\ \E m \in ReportMsgs : shown' = <<Item("error", m)>>
             \/ \E k \in DOMAIN shown' : shown'[k].kind = "markdown" /\ shown'[k].text \in Reports]_vars

C18_Witness ==
    /\ pc = "error"
    /\ feed_response = "ok"
    /\ \E m \in ReportMsgs : shown = <<Item("error", m)>>

\* the PDF of the content task is with the worker thread
Parsing(task) == task.st = "parsing"

\* C19: while the PDF of one entry is parsed, the request of any other
\* content task of the batch can receive its response and the task can
\* complete, and a task that yielded can resume; and a parse that fails
\* ends its task with the sentinel "Error retrieving PDF text: ..." and
\* leaves the search in its extraction stage
C19_ParseDoesNotBlock ==
    /\ [](\A i, j \in DOMAIN metadata_tasks :
            (i # j /\ Parsing(metadata_tasks[i])) =>
                /\ (metadata_tasks[j].st = "inflight" /\ metadata_tasks[j].kind = "pdf") =>
                      ENABLED PdfResponse(j)
                /\ (metadata_tasks[j].st = "inflight" /\ metadata_tasks[j].kind = "html") =>
                      ENABLED HtmlResponse(j)
                /\ metadata_tasks[j].st = "sleeping" => ENABLED SleepDone(j)
                /\ Parsing(metadata_tasks[j]) => ENABLED PdfParsed(j))
    /\ [][\A i \in DOMAIN metadata_tasks :
             (Parsing(metadata_tasks[i]) /\ ~metadata_tasks[i].content.valid) =>
                 /\ pc' = "meta"
                 /\ \/ metadata_tasks'[i] = metadata_tasks[i]
                    \/ /\ metadata_tasks'[i].st = "done"
                       /\ \E m \in ParseMsgs : metadata_tasks'[i].result = ErrPdf \o m]_vars

C19_Witness ==
    /\ pc = "meta"
    /\ Len(feed) = 2
    /\ Parsing(metadata_tasks[1])
    /\ ~metadata_tasks[1].content.valid
    /\ metadata_tasks[2].st = "inflight"
    /\ metadata_tasks[2].kind = "html"

====
